---- MODULE Spec2Model ----
(***************************************************************************)
(* Model of the two promise implementations of the repository:             *)
(*   src/unnamed/part_000  (lower-camel functions, "[[...]]" slots)        *)
(*   src/promise.js        (upper-camel functions)                         *)
(* Both are CommonJS modules in sloppy mode.  The value of `impl` selects   *)
(* the file whose code the operations follow.                               *)
(***************************************************************************)
EXTENDS Integers, Sequences, FiniteSets, TLC

VARIABLES
    impl,       \* which source file is under test
    promises,   \* promise id -> its internal slots
    pairs,      \* resolving-function pair id -> its closure variables
    queue,      \* the setImmediate queue (FIFO)
    log,        \* history: user handlers invoked so far, with the call they ran in
    thens,      \* history: the then() registrations made so far
    last,       \* history: the last operation and what it returned
    held,       \* history: the promises user code holds a reference to
    adoptions,  \* history: <<g, f>> for every g = Promise.resolve(f), f a promise
    ops         \* number of calls made by user code so far

vars == <<impl, promises, pairs, queue, log, thens, last, held, adoptions, ops>>

(***************************************************************************)
(* Bounds                                                                  *)
(***************************************************************************)
MaxPromises == 3
MaxOps == 4

(***************************************************************************)
(* JavaScript values.  Every value is a record [k, n].                     *)
(***************************************************************************)
Val(k, n) == [k |-> k, n |-> n]
Undefined == Val("undefined", 0)
Null == Val("null", 0)
Num(n) == Val("number", n)
NaN == Val("NaN", 0)
SomeString == Val("string", 0)           \* a string (its characters are not modelled)
PlainObject == Val("object", 0)          \* {}            : no then property
ObjectWithDataThen == Val("object", 1)   \* { then: 42 }  : then is not callable
ThrowingGetter(n) == Val("getter", n)    \* { get then() { throw n } }
Thenable(i) == Val("thenable", i)        \* { then(res, rej) { script i } }
FunctionThenable(i) == Val("function", i) \* a function f with f.then = script i
PromiseRef(p) == Val("promise", p)       \* a promise of this implementation
SelfResolutionError == Val("TypeError", 1)  \* new TypeError('resolution === promise')
NullPropertyError == Val("TypeError", 2)    \* TypeError: Cannot read property 'then' of null
\* callables
Handler(name) == Val(name, 0)            \* a function written by the user
ResolveFn(k) == Val("resolveFn", k)      \* the resolve function of pair k
RejectFn(k) == Val("rejectFn", k)        \* the reject function of pair k
ThenFn(i) == Val("thenFn", i)            \* the then function of Thenable(i)
PromiseThen == Val("promiseThen", 0)     \* Promise.prototype.then

HandlerNames == {"identity", "increment", "thrower", "times10", "returnsOwnPromise"}

typeof(v) ==
    CASE v.k \in {"null", "object", "getter", "thenable", "promise", "TypeError"} -> "object"
      [] v.k \in {"function", "resolveFn", "rejectFn", "thenFn", "promiseThen"} \cup HandlerNames -> "function"
      [] v.k \in {"number", "NaN"} -> "number"
      [] v.k = "string" -> "string"
      [] OTHER -> "undefined"

isObject(obj) == typeof(obj) = "object"

isFunction(func) == typeof(func) = "function"

isCallable(v) == typeof(v) = "function"

isPromise(v) == v.k = "promise"

(***************************************************************************)
(* Property access and assignment                                          *)
(***************************************************************************)
\* resolution.then : [threw, value]
GetThen(v) ==
    CASE v.k \in {"null", "undefined"} -> [threw |-> TRUE, value |-> NullPropertyError]
      [] v.k = "getter" -> [threw |-> TRUE, value |-> Num(v.n)]
      [] v.k = "object" /\ v.n = 1 -> [threw |-> FALSE, value |-> Num(42)]
      [] v.k \in {"thenable", "function"} -> [threw |-> FALSE, value |-> ThenFn(v.n)]
      [] v.k = "promise" -> [threw |-> FALSE, value |-> PromiseThen]
      [] OTHER -> [threw |-> FALSE, value |-> Undefined]

\* obj.slot = new, in sloppy mode: ignored without an error when the property
\* was defined without `writable: true`
SloppyAssign(writable, old, new) == IF writable THEN new ELSE old

\* A reaction-list slot holds an array or undefined.
ReactionList(seq) == [undef |-> FALSE, list |-> seq]
UndefinedSlot == [undef |-> TRUE, list |-> <<>>]

\* descriptors given to Object.create by the two constructors
ReactionsWritable == FALSE
StateWritable == TRUE

NewPromiseRecord ==
    [state |-> "pending", result |-> Undefined,
     fulfillReactions |-> ReactionList(<<>>),
     rejectReactions |-> ReactionList(<<>>),
     isHandled |-> FALSE]

NoException == <<>>
Threw(S) == S.exc # NoException
Throw(S, e) == [S EXCEPT !.exc = <<e>>]
Caught(S) == [S EXCEPT !.exc = NoException]
Return(S, v) == [S EXCEPT !.ret = v]

NoReaction == [capability |-> 0, type |-> "none", handler |-> Undefined]
ReactionJob(reaction, argument) ==
    [kind |-> "reaction", reaction |-> reaction, argument |-> argument,
     promise |-> 0, then |-> Undefined]
ThenableJob(promise, thenable, then) ==
    [kind |-> "thenable", reaction |-> NoReaction, argument |-> thenable,
     promise |-> promise, then |-> then]

\* setImmediate(callback)
setImmediate(S, job) == [S EXCEPT !.queue = Append(@, job)]

(***************************************************************************)
(* src/unnamed/part_000                                                    *)
(***************************************************************************)
RECURSIVE forEachSetImmediate(_, _, _, _)
forEachSetImmediate(S, reactions, argument, i) ==
    IF i > Len(reactions) THEN S
    ELSE forEachSetImmediate(setImmediate(S, ReactionJob(reactions[i], argument)),
                             reactions, argument, i + 1)

RECURSIVE forEachReversed(_, _, _, _)
forEachReversed(S, reactions, argument, i) ==
    IF i < 1 THEN S
    ELSE forEachReversed(setImmediate(S, ReactionJob(reactions[i], argument)),
                         reactions, argument, i - 1)

\* mutant: the jobs are scheduled from the last reaction to the first
triggerPromiseReactions_Reversed(S, reactions, argument) ==
    IF reactions.undef THEN Throw(S, Val("TypeError", 3))
    ELSE forEachReversed(S, reactions.list, argument, Len(reactions.list))

triggerPromiseReactions(S, reactions, argument) ==
    IF reactions.undef THEN Throw(S, Val("TypeError", 3))
    ELSE forEachSetImmediate(S, reactions.list, argument, 1)

fulfillPromise(S, promise, value) ==
    IF S.promises[promise].state # "pending" THEN S
    ELSE LET reactions == S.promises[promise].fulfillReactions
             S1 == [S EXCEPT
                      !.promises[promise].result = value,
                      !.promises[promise].fulfillReactions =
                          SloppyAssign(ReactionsWritable, @, UndefinedSlot),
                      !.promises[promise].rejectReactions =
                          SloppyAssign(ReactionsWritable, @, UndefinedSlot),
                      !.promises[promise].state =
                          SloppyAssign(StateWritable, @, "fulfilled")]
         IN triggerPromiseReactions(S1, reactions, value)

rejectPromise(S, promise, reason) ==
    IF S.promises[promise].state # "pending" THEN S
    ELSE LET reactions == S.promises[promise].rejectReactions
             S1 == [S EXCEPT
                      !.promises[promise].result = reason,
                      !.promises[promise].fulfillReactions =
                          SloppyAssign(ReactionsWritable, @, UndefinedSlot),
                      !.promises[promise].rejectReactions =
                          SloppyAssign(ReactionsWritable, @, UndefinedSlot),
                      !.promises[promise].state =
                          SloppyAssign(StateWritable, @, "rejected")]
         IN triggerPromiseReactions(S1, reactions, reason)

NewPair(promise, exposed) ==
    [promise |-> promise,
     alreadySettled |-> FALSE,           \* part_000: one flag shared by both closures
     resolveAlreadyResolved |-> FALSE,   \* promise.js: the resolve closure's own flag
     rejectAlreadyResolved |-> FALSE,    \* promise.js: the reject closure's own flag
     exposed |-> exposed,                \* history: user code holds the two functions
     called |-> FALSE]                   \* history: one of the two functions was called

\* the new pair is the last of S.pairs
createResolvingFunctions(S, promise, exposed) ==
    [S EXCEPT !.pairs = Append(@, NewPair(promise, exposed))]

MarkCalled(S, k) == [S EXCEPT !.pairs[k].called = TRUE]

\* mutant: no test for resolution === promise
resolve_NoSelfCheck(S0, k, resolution) ==
    LET S == MarkCalled(S0, k)
        promise == S.pairs[k].promise
    IN IF S.pairs[k].alreadySettled THEN S
       ELSE LET S1 == [S EXCEPT !.pairs[k].alreadySettled = TRUE]
                get == GetThen(resolution)
            IN IF resolution = Null
                 THEN fulfillPromise(S1, promise, resolution)
               ELSE IF ~isObject(resolution) /\ ~isFunction(resolution)
                 THEN fulfillPromise(S1, promise, resolution)
               ELSE IF get.threw
                 THEN rejectPromise(S1, promise, get.value)
               ELSE IF ~isCallable(get.value)
                 THEN fulfillPromise(S1, promise, resolution)
               ELSE setImmediate(S1, ThenableJob(promise, resolution, get.value))

\* mutant: an object with a callable then is treated as any other object
resolve_NoAssimilation(S0, k, resolution) ==
    LET S == MarkCalled(S0, k)
        promise == S.pairs[k].promise
    IN IF S.pairs[k].alreadySettled THEN S
       ELSE LET S1 == [S EXCEPT !.pairs[k].alreadySettled = TRUE]
                get == GetThen(resolution)
            IN IF resolution = PromiseRef(promise)
                 THEN rejectPromise(S1, promise, SelfResolutionError)
               ELSE IF resolution = Null
                 THEN fulfillPromise(S1, promise, resolution)
               ELSE IF ~isObject(resolution) /\ ~isFunction(resolution)
                 THEN fulfillPromise(S1, promise, resolution)
               ELSE IF get.threw
                 THEN rejectPromise(S1, promise, get.value)
               ELSE fulfillPromise(S1, promise, resolution)

resolve(S0, k, resolution) ==
    LET S == MarkCalled(S0, k)
        promise == S.pairs[k].promise
    IN IF S.pairs[k].alreadySettled THEN S
       ELSE LET S1 == [S EXCEPT !.pairs[k].alreadySettled = TRUE]
                get == GetThen(resolution)
            IN IF resolution = PromiseRef(promise)
                 THEN rejectPromise(S1, promise, SelfResolutionError)
               ELSE IF resolution = Null
                 THEN fulfillPromise(S1, promise, resolution)
               ELSE IF ~isObject(resolution) /\ ~isFunction(resolution)
                 THEN fulfillPromise(S1, promise, resolution)
               ELSE IF get.threw
                 THEN rejectPromise(S1, promise, get.value)
               ELSE IF ~isCallable(get.value)
                 THEN fulfillPromise(S1, promise, resolution)
               ELSE setImmediate(S1, ThenableJob(promise, resolution, get.value))

reject(S0, k, reason) ==
    LET S == MarkCalled(S0, k)
    IN IF S.pairs[k].alreadySettled THEN S
       ELSE rejectPromise([S EXCEPT !.pairs[k].alreadySettled = TRUE],
                          S.pairs[k].promise, reason)

(***************************************************************************)
(* src/promise.js                                                          *)
(***************************************************************************)
TriggerPromiseReactions(S, reactions, argument) ==
    IF reactions.undef THEN Throw(S, Val("TypeError", 3))
    ELSE forEachSetImmediate(S, reactions.list, argument, 1)

FulfillPromise(S, promise, value) ==
    LET reactions == S.promises[promise].fulfillReactions
        S1 == [S EXCEPT
                 !.promises[promise].result = value,
                 !.promises[promise].fulfillReactions =
                     SloppyAssign(ReactionsWritable, @, UndefinedSlot),
                 !.promises[promise].rejectReactions =
                     SloppyAssign(ReactionsWritable, @, UndefinedSlot),
                 !.promises[promise].state =
                     SloppyAssign(StateWritable, @, "fulfilled")]
    IN TriggerPromiseReactions(S1, reactions, value)

RejectPromise(S, promise, reason) ==
    LET reactions == S.promises[promise].rejectReactions
        S1 == [S EXCEPT
                 !.promises[promise].result = reason,
                 !.promises[promise].fulfillReactions =
                     SloppyAssign(ReactionsWritable, @, UndefinedSlot),
                 !.promises[promise].rejectReactions =
                     SloppyAssign(ReactionsWritable, @, UndefinedSlot),
                 !.promises[promise].state =
                     SloppyAssign(StateWritable, @, "rejected")]
    IN TriggerPromiseReactions(S1, reactions, reason)

\* setAlreadyResolved(false) gives each of the two closures its own variable
CreateResolvingFunctions(S, promise, exposed) ==
    [S EXCEPT !.pairs = Append(@, NewPair(promise, exposed))]

\* getPromiseResolveFunctions().Function
Resolve(S0, k, resolution) ==
    LET S == MarkCalled(S0, k)
        promise == S.pairs[k].promise
    IN IF S.pairs[k].resolveAlreadyResolved THEN S
       ELSE LET S1 == [S EXCEPT !.pairs[k].resolveAlreadyResolved = TRUE]
                get == GetThen(resolution)
            IN IF resolution = PromiseRef(promise)
                 THEN RejectPromise(S1, promise, SelfResolutionError)
               ELSE IF ~isObject(resolution)
                 THEN FulfillPromise(S1, promise, resolution)
               ELSE IF get.threw
                 THEN Throw(S1, get.value)
               ELSE IF ~isCallable(get.value)
                 THEN FulfillPromise(S1, promise, resolution)
               ELSE setImmediate(S1, ThenableJob(promise, resolution, get.value))

\* getPromiseRejectFunctions().Function
Reject(S0, k, reason) ==
    LET S == MarkCalled(S0, k)
    IN IF S.pairs[k].rejectAlreadyResolved THEN S
       ELSE RejectPromise([S EXCEPT !.pairs[k].rejectAlreadyResolved = TRUE],
                          S.pairs[k].promise, reason)

(***************************************************************************)
(* Functions written by the user: handlers, executors, then functions      *)
(***************************************************************************)
CallResolveFn(S, k, v) == IF impl = "part_000" THEN resolve(S, k, v) ELSE Resolve(S, k, v)
CallRejectFn(S, k, v) == IF impl = "part_000" THEN reject(S, k, v) ELSE Reject(S, k, v)

\* v + 1 and v * 10 on JavaScript values
Plus1(v) ==
    CASE v.k = "number" -> Num(v.n + 1)
      [] v.k = "null" -> Num(1)
      [] v.k \in {"undefined", "NaN"} -> NaN
      [] OTHER -> SomeString
Times10(v) ==
    CASE v.k = "number" -> Num(v.n * 10)
      [] v.k = "null" -> Num(0)
      [] OTHER -> NaN

\* history: a user function ran, in the call S.ctx, and returned or threw `value`
Logged(S, promise, type, argument, threw, value) ==
    [S EXCEPT !.log = Append(@, [promise |-> promise, type |-> type,
                                 argument |-> argument, ctx |-> S.ctx,
                                 threw |-> threw, value |-> value])]

\* handler(argument), for the handler of a reaction
CallHandler(S, reaction, argument) ==
    LET handler == reaction.handler
        own == S.pairs[reaction.capability].promise
        returns(v) == Return(Logged(S, own, reaction.type, argument, FALSE, v), v)
        throws(v) == Throw(Logged(S, own, reaction.type, argument, TRUE, v), v)
    IN CASE handler.k = "resolveFn" -> Return(CallResolveFn(S, handler.n, argument), Undefined)
         [] handler.k = "rejectFn" -> Return(CallRejectFn(S, handler.n, argument), Undefined)
         [] handler.k = "identity" -> returns(argument)
         [] handler.k = "increment" -> returns(Plus1(argument))
         [] handler.k = "times10" -> returns(Times10(argument))
         [] handler.k = "thrower" -> throws(argument)
         [] handler.k = "returnsOwnPromise" -> returns(PromiseRef(own))
         [] OTHER -> Return(S, Undefined)

\* The body of an executor or of a then function: calls of its two arguments,
\* possibly ended by a throw.
Res(v) == [op |-> "res", v |-> v]
Rej(v) == [op |-> "rej", v |-> v]
Thr(v) == [op |-> "throw", v |-> v]

RECURSIVE RunScript(_, _, _, _)
RunScript(S, k, script, i) ==
    IF i > Len(script) \/ Threw(S) THEN S
    ELSE LET o == script[i]
         IN CASE o.op = "res" -> RunScript(CallResolveFn(S, k, o.v), k, script, i + 1)
              [] o.op = "rej" -> RunScript(CallRejectFn(S, k, o.v), k, script, i + 1)
              [] OTHER -> Throw(S, o.v)

ThenScripts ==
    << <<Res(Num(5))>>,
       <<>>,
       <<Thr(Num(7))>>,
       <<Res(Num(5)), Thr(Num(7))>>,
       <<Rej(Num(6)), Thr(Num(7))>>,
       <<Res(Num(5)), Rej(Num(6))>> >>

(***************************************************************************)
(* src/unnamed/part_000, continued                                         *)
(***************************************************************************)
\* catch (error) { reject(error) }, for the reject function of pair k
catchReject(S, k) == IF Threw(S) THEN reject(Caught(S), k, S.exc[1]) ELSE S

\* lines 191-195, H the state when handler(argument) has returned or thrown
resolveWithHandlerResult(H, capability) ==
    IF Threw(H) THEN reject(Caught(H), capability, H.exc[1])
    ELSE catchReject(resolve(H, capability, H.ret), capability)

\* mutant: what a rejection handler returns rejects the downstream promise
rejectWithHandlerResult(H, capability) ==
    reject(Caught(H), capability, IF Threw(H) THEN H.exc[1] ELSE H.ret)

promiseReactionJob_RejectionNotRecovered(S, reaction, argument) ==
    IF reaction.handler = Undefined
    THEN CASE reaction.type = "Fulfill" -> resolve(S, reaction.capability, argument)
           [] reaction.type = "Reject" -> reject(S, reaction.capability, argument)
           [] OTHER -> S
    ELSE IF reaction.type = "Reject"
    THEN rejectWithHandlerResult(CallHandler(S, reaction, argument), reaction.capability)
    ELSE resolveWithHandlerResult(CallHandler(S, reaction, argument), reaction.capability)

promiseReactionJob(S, reaction, argument) ==
    IF reaction.handler = Undefined
    THEN CASE reaction.type = "Fulfill" -> resolve(S, reaction.capability, argument)
           [] reaction.type = "Reject" -> reject(S, reaction.capability, argument)
           [] OTHER -> S
    ELSE resolveWithHandlerResult(CallHandler(S, reaction, argument), reaction.capability)

\* new Promise(executor): the new promise is the last of S.promises, its pair
\* the last of S.pairs
\* Object.create(new.target.prototype, ...)
ObjectCreate(S) == [S EXCEPT !.promises = Append(@, NewPromiseRecord)]

Promise(S, executor, exposed) ==
    catchReject(
        RunScript(createResolvingFunctions(ObjectCreate(S), Len(S.promises) + 1, exposed),
                  Len(S.pairs) + 1, executor, 1),
        Len(S.pairs) + 1)

\* its executor stores the two functions in the capability and calls neither
newPromiseCapability(S) == Promise(S, <<>>, FALSE)

\* history: a registration
Registered(S, promise, onFulfilled, onRejected, resultCapability) ==
    [S EXCEPT !.thens = Append(@, [source |-> promise,
                                   result |-> S.pairs[resultCapability].promise,
                                   state |-> S.promises[promise].state,
                                   onFulfilled |-> onFulfilled,
                                   onRejected |-> onRejected])]

Push(slot, x) ==
    IF slot.undef THEN slot ELSE ReactionList(Append(slot.list, x))

\* mutant: on a settled promise the reaction job runs inside then()
performPromiseThen_Synchronous(S0, promise, onFulfilled0, onRejected0, resultCapability) ==
    LET onFulfilled == IF isCallable(onFulfilled0) THEN onFulfilled0 ELSE Undefined
        onRejected == IF isCallable(onRejected0) THEN onRejected0 ELSE Undefined
        S == Registered(S0, promise, onFulfilled, onRejected, resultCapability)
        fulfillReaction ==
            [capability |-> resultCapability, type |-> "Fulfill", handler |-> onFulfilled]
        rejectReaction ==
            [capability |-> resultCapability, type |-> "Reject", handler |-> onRejected]
        P == S.promises[promise]
        S1 == CASE P.state = "pending" ->
                     [S EXCEPT
                        !.promises[promise].fulfillReactions = Push(@, fulfillReaction),
                        !.promises[promise].rejectReactions = Push(@, rejectReaction)]
                [] P.state = "fulfilled" -> promiseReactionJob(S, fulfillReaction, P.result)
                [] OTHER -> promiseReactionJob(S, rejectReaction, P.result)
    IN Return(S1, PromiseRef(S.pairs[resultCapability].promise))

performPromiseThen(S0, promise, onFulfilled0, onRejected0, resultCapability) ==
    LET onFulfilled == IF isCallable(onFulfilled0) THEN onFulfilled0 ELSE Undefined
        onRejected == IF isCallable(onRejected0) THEN onRejected0 ELSE Undefined
        S == Registered(S0, promise, onFulfilled, onRejected, resultCapability)
        fulfillReaction ==
            [capability |-> resultCapability, type |-> "Fulfill", handler |-> onFulfilled]
        rejectReaction ==
            [capability |-> resultCapability, type |-> "Reject", handler |-> onRejected]
        P == S.promises[promise]
        \* line 318 writes a property named PromiseIsHandled, not the
        \* [[PromiseIsHandled]] slot: the slot keeps its value
        S1 == CASE P.state = "pending" ->
                     IF P.fulfillReactions.undef \/ P.rejectReactions.undef
                     THEN Throw(S, Val("TypeError", 3))
                     ELSE [S EXCEPT
                             !.promises[promise].fulfillReactions = Push(@, fulfillReaction),
                             !.promises[promise].rejectReactions = Push(@, rejectReaction)]
                [] P.state = "fulfilled" ->
                     setImmediate(S, ReactionJob(fulfillReaction, P.result))
                [] OTHER ->
                     setImmediate(S, ReactionJob(rejectReaction, P.result))
    IN IF Threw(S1) THEN S1
       ELSE Return(S1, PromiseRef(S.pairs[resultCapability].promise))

\* Promise.prototype.then.call(this, onFulfilled, onRejected)
prototype_then(S, this, onFulfilled, onRejected) ==
    IF ~isPromise(this) THEN Throw(S, Val("TypeError", 4))
    ELSE performPromiseThen(newPromiseCapability(S), this.n, onFulfilled, onRejected,
                            Len(S.pairs) + 1)

(***************************************************************************)
(* src/promise.js, continued                                               *)
(***************************************************************************)
\* catch (error) { Reject.call(undefined, error) }, for the Reject of pair k
CatchReject(S, k) == IF Threw(S) THEN Reject(Caught(S), k, S.exc[1]) ELSE S

\* lines 93-97, H the state when handler.call(undefined, argument) has returned
\* or thrown
ResolveWithHandlerResult(H, promiseCapability) ==
    IF Threw(H) THEN Reject(Caught(H), promiseCapability, H.exc[1])
    ELSE CatchReject(Resolve(H, promiseCapability, H.ret), promiseCapability)

PromiseReactionJob(S, reaction, argument) ==
    IF reaction.handler = Undefined
    THEN CASE reaction.type = "Fulfill" -> Resolve(S, reaction.capability, argument)
           [] reaction.type = "Reject" -> Reject(S, reaction.capability, argument)
           [] OTHER -> S
    ELSE ResolveWithHandlerResult(CallHandler(S, reaction, argument), reaction.capability)

PromiseJs(S, executor, exposed) ==
    CatchReject(
        RunScript(CreateResolvingFunctions(ObjectCreate(S), Len(S.promises) + 1, exposed),
                  Len(S.pairs) + 1, executor, 1),
        Len(S.pairs) + 1)

NewPromiseCapability(S) == PromiseJs(S, <<>>, FALSE)

PerformPromiseThen(S0, promise, onFulfilled0, onRejected0, resultCapability) ==
    LET onFulfilled == IF isCallable(onFulfilled0) THEN onFulfilled0 ELSE Undefined
        onRejected == IF isCallable(onRejected0) THEN onRejected0 ELSE Undefined
        S == Registered(S0, promise, onFulfilled, onRejected, resultCapability)
        fulfillReaction ==
            [capability |-> resultCapability, type |-> "Fulfill", handler |-> onFulfilled]
        rejectReaction ==
            [capability |-> resultCapability, type |-> "Reject", handler |-> onRejected]
        P == S.promises[promise]
        S1 == CASE P.state = "pending" ->
                     IF P.fulfillReactions.undef \/ P.rejectReactions.undef
                     THEN Throw(S, Val("TypeError", 3))
                     ELSE [S EXCEPT
                             !.promises[promise].fulfillReactions = Push(@, fulfillReaction),
                             !.promises[promise].rejectReactions = Push(@, rejectReaction)]
                [] P.state = "fulfilled" ->
                     setImmediate(S, ReactionJob(fulfillReaction, P.result))
                [] OTHER ->
                     setImmediate(S, ReactionJob(rejectReaction, P.result))
    IN IF Threw(S1) THEN S1
       ELSE Return([S1 EXCEPT !.promises[promise].isHandled = TRUE],
                   PromiseRef(S.pairs[resultCapability].promise))

PromiseJs_then(S, this, onFulfilled, onRejected) ==
    IF ~isPromise(this) THEN Throw(S, Val("TypeError", 4))
    ELSE PerformPromiseThen(NewPromiseCapability(S), this.n, onFulfilled, onRejected,
                            Len(S.pairs) + 1)

(***************************************************************************)
(* Thenable jobs and the static functions of both files                    *)
(***************************************************************************)
\* then.call(thenable, resolve, reject)
CallThen(S, then, thenable, k) ==
    IF then.k = "promiseThen"
    THEN IF impl = "part_000"
         THEN prototype_then(S, thenable, ResolveFn(k), RejectFn(k))
         ELSE PromiseJs_then(S, thenable, ResolveFn(k), RejectFn(k))
    ELSE RunScript(Logged(S, S.pairs[k].promise, "then", thenable, FALSE, Undefined),
                   k, ThenScripts[then.n], 1)

\* mutant: the job of a promise that is still pending waits for it by
\* scheduling itself again
promiseResolveThenableJob_Polling(S, promise, thenable, then) ==
    IF thenable.k = "promise" /\ S.promises[thenable.n].state = "pending"
    THEN setImmediate(S, ThenableJob(promise, thenable, then))
    ELSE catchReject(
             CallThen(createResolvingFunctions(S, promise, then.k = "thenFn"),
                      then, thenable, Len(S.pairs) + 1),
             Len(S.pairs) + 1)

\* the pair made by the job is pair Len(S.pairs) + 1
promiseResolveThenableJob(S, promise, thenable, then) ==
    catchReject(
        CallThen(createResolvingFunctions(S, promise, then.k = "thenFn"),
                 then, thenable, Len(S.pairs) + 1),
        Len(S.pairs) + 1)

PromiseResolveThenableJob(S, promise, resolution, thenAction) ==
    CatchReject(
        CallThen(CreateResolvingFunctions(S, promise, thenAction.k = "thenFn"),
                 thenAction, resolution, Len(S.pairs) + 1),
        Len(S.pairs) + 1)

\* the capability's promise is promise Len(S.promises) + 1, its pair is pair
\* Len(S.pairs) + 1
Promise_resolve(S, x) ==
    Return(resolve(newPromiseCapability(S), Len(S.pairs) + 1, x),
           PromiseRef(Len(S.promises) + 1))

Promise_reject(S, r) ==
    Return(reject(newPromiseCapability(S), Len(S.pairs) + 1, r),
           PromiseRef(Len(S.promises) + 1))

\* an exception of Resolve propagates to the caller: S.exc stays set
PromiseJs_resolve(S, x) ==
    Return(Resolve(NewPromiseCapability(S), Len(S.pairs) + 1, x),
           PromiseRef(Len(S.promises) + 1))

PromiseJs_reject(S, r) ==
    Return(Reject(NewPromiseCapability(S), Len(S.pairs) + 1, r),
           PromiseRef(Len(S.promises) + 1))

(***************************************************************************)
(* The state machine                                                       *)
(***************************************************************************)
Impls == {"part_000", "promise.js"}

NoJob == [kind |-> "none", reaction |-> NoReaction, argument |-> Undefined,
          promise |-> 0, then |-> Undefined]

\* history record of an operation
Op(name, promise, pair, arg, script, job, fresh, S) ==
    [op |-> name, promise |-> promise, pair |-> pair, arg |-> arg, script |-> script,
     job |-> job, fresh |-> fresh, raised |-> Threw(S),
     error |-> IF Threw(S) THEN S.exc[1] ELSE Undefined]

Init ==
    /\ impl \in Impls
    /\ promises = <<>>
    /\ pairs = <<>>
    /\ queue = <<>>
    /\ log = <<>>
    /\ thens = <<>>
    /\ held = {}
    /\ adoptions = {}
    /\ ops = 0
    /\ last = [op |-> "init", promise |-> 0, pair |-> 0, arg |-> Undefined, script |-> <<>>,
               job |-> NoJob, fresh |-> FALSE, raised |-> FALSE, error |-> Undefined]

\* the program state on entry to a call made from `ctx`
Cur(ctx) ==
    [promises |-> promises, pairs |-> pairs, queue |-> queue, log |-> log,
     thens |-> thens, exc |-> NoException, ret |-> Undefined, ctx |-> ctx]

Commit(S, op, nowHeld, userCall) ==
    /\ promises' = S.promises
    /\ pairs' = S.pairs
    /\ queue' = S.queue
    /\ log' = S.log
    /\ thens' = S.thens
    /\ last' = op
    /\ held' = held \cup nowHeld
    /\ adoptions' = IF op.op = "Promise.resolve" /\ op.arg.k = "promise" /\ ~op.raised
                    THEN adoptions \cup {<<op.promise, op.arg.n>>}
                    ELSE adoptions
    /\ ops' = ops + userCall
    /\ UNCHANGED impl

\* the call `name` made by user code ended in state S; unless it raised it
\* returned the promises `returned`
Called(S, name, promise, pair, arg, script, fresh, returned) ==
    Commit(S, Op(name, promise, pair, arg, script, NoJob, fresh, S),
           IF Threw(S) THEN {} ELSE returned, 1)

\* p = new Promise(executor)
NewPromise(executor) ==
    /\ ops < MaxOps
    /\ Len(promises) < MaxPromises
    /\ Called(IF impl = "part_000" THEN Promise(Cur("new"), executor, TRUE)
              ELSE PromiseJs(Cur("new"), executor, TRUE),
              "new", Len(promises) + 1, Len(pairs) + 1, Undefined, executor, TRUE,
              {Len(promises) + 1})

\* q = p.then(onFulfilled, onRejected)
Then(p, onFulfilled, onRejected) ==
    /\ ops < MaxOps
    /\ Len(promises) < MaxPromises
    /\ p \in held
    /\ Called(IF impl = "part_000"
              THEN prototype_then(Cur("then"), PromiseRef(p), onFulfilled, onRejected)
              ELSE PromiseJs_then(Cur("then"), PromiseRef(p), onFulfilled, onRejected),
              "then", Len(promises) + 1, 0, PromiseRef(p), <<>>, TRUE,
              {Len(promises) + 1})

\* p = Promise.resolve(x)
StaticResolve(x) ==
    /\ ops < MaxOps
    /\ Len(promises) < MaxPromises
    /\ x.k = "promise" => x.n \in held
    /\ Called(IF impl = "part_000" THEN Promise_resolve(Cur("Promise.resolve"), x)
              ELSE PromiseJs_resolve(Cur("Promise.resolve"), x),
              "Promise.resolve", Len(promises) + 1, Len(pairs) + 1, x, <<>>, TRUE,
              {Len(promises) + 1})

\* p = Promise.reject(r)
StaticReject(r) ==
    /\ ops < MaxOps
    /\ Len(promises) < MaxPromises
    /\ r.k = "promise" => r.n \in held
    /\ Called(IF impl = "part_000" THEN Promise_reject(Cur("Promise.reject"), r)
              ELSE PromiseJs_reject(Cur("Promise.reject"), r),
              "Promise.reject", Len(promises) + 1, Len(pairs) + 1, r, <<>>, TRUE,
              {Len(promises) + 1})

\* user code calls the resolve function of a pair it holds
CallResolve(k, v) ==
    /\ ops < MaxOps
    /\ k \in DOMAIN pairs
    /\ pairs[k].exposed
    /\ v.k = "promise" => v.n \in held
    /\ Called(CallResolveFn(Cur("resolve"), k, v),
              "resolve", pairs[k].promise, k, v, <<>>, ~pairs[k].called, {})

\* user code calls the reject function of a pair it holds
CallReject(k, v) ==
    /\ ops < MaxOps
    /\ k \in DOMAIN pairs
    /\ pairs[k].exposed
    /\ v.k = "promise" => v.n \in held
    /\ Called(CallRejectFn(Cur("reject"), k, v),
              "reject", pairs[k].promise, k, v, <<>>, ~pairs[k].called, {})

\* the callback given to setImmediate
Callback(S, job) ==
    IF job.kind = "reaction"
    THEN IF impl = "part_000"
         THEN promiseReactionJob(S, job.reaction, job.argument)
         ELSE PromiseReactionJob(S, job.reaction, job.argument)
    ELSE IF impl = "part_000"
         THEN promiseResolveThenableJob(S, job.promise, job.argument, job.then)
         ELSE PromiseResolveThenableJob(S, job.promise, job.argument, job.then)

\* the callback `job` ended in state S
Ran(S, job) ==
    Commit(S, Op("job", 0, 0, job.argument, <<>>, job,
                 job.kind = "reaction" /\ ~pairs[job.reaction.capability].called, S),
           {}, 0)

\* the event loop runs the oldest setImmediate callback
RunHead ==
    /\ queue # <<>>
    /\ Ran(Callback([Cur("job") EXCEPT !.queue = Tail(queue)], Head(queue)), Head(queue))

\* the same, while the callback makes no promise beyond the bound
RunJob ==
    /\ queue # <<>>
    /\ Head(queue).then.k = "promiseThen" => Len(promises) < MaxPromises
    /\ RunHead

(***************************************************************************)
(* Inputs                                                                  *)
(***************************************************************************)
Executors ==
    { <<>>, <<Res(Num(1))>>, <<Rej(Num(2))>>, <<Thr(Num(7))>>,
      <<Res(Num(1)), Thr(Num(7))>>, <<Rej(Num(2)), Thr(Num(7))>> }

HandlerArgs ==
    { <<Handler("identity"), Handler("identity")>>,
      <<Handler("thrower"), Handler("thrower")>>,
      <<Handler("identity"), Undefined>>,
      <<Undefined, Handler("identity")>> }

Settlements == {Num(1), Num(2)}

Next ==
    \/ \E e \in Executors : NewPromise(e)
    \/ \E p \in DOMAIN promises, h \in HandlerArgs : Then(p, h[1], h[2])
    \/ \E x \in Settlements : StaticResolve(x)
    \/ \E r \in Settlements : StaticReject(r)
    \/ \E k \in DOMAIN pairs, v \in Settlements : CallResolve(k, v)
    \/ \E k \in DOMAIN pairs, v \in Settlements : CallReject(k, v)
    \/ RunJob

Spec == Init /\ [][Next]_vars

\* The resolution procedure: what resolve() does with each kind of value.
ResolutionExecutors == { <<>>, <<Res(Num(1))>>, <<Rej(Num(2))>> }

ResolutionValues == { Num(1), Thenable(1), Thenable(6) }

PromiseRefs == { PromiseRef(p) : p \in DOMAIN promises }

NextResolution ==
    \/ \E e \in ResolutionExecutors : NewPromise(e)
    \/ \E p \in DOMAIN promises : Then(p, Handler("returnsOwnPromise"), Undefined)
    \/ \E x \in ResolutionValues \cup PromiseRefs : StaticResolve(x)
    \/ \E k \in DOMAIN pairs, v \in {Num(1), Thenable(1)} \cup PromiseRefs : CallResolve(k, v)
    \/ \E k \in DOMAIN pairs : CallReject(k, Num(2))
    \/ RunJob

SpecResolution == Init /\ [][NextResolution]_vars

\* Promise.resolve and Promise.reject on every kind of value that is not a
\* thenable, and on a thenable.
StaticValues ==
    { Num(1), NaN, SomeString, Undefined, Null, PlainObject, ObjectWithDataThen,
      SelfResolutionError, Thenable(1) }

NextStatic ==
    \/ \E x \in StaticValues \cup PromiseRefs : StaticResolve(x)
    \/ \E r \in {Num(2), Null} : StaticReject(r)
    \/ \E p \in DOMAIN promises : Then(p, Handler("identity"), Handler("identity"))
    \/ RunJob

SpecStatic == Init /\ [][NextStatic]_vars

\* Assimilation: resolve() and Promise.resolve() on objects and functions that
\* have a then property, with then functions of every shape of ThenScripts, and
\* handlers registered before and after the settlement.
AssimilationValues ==
    { Num(1), ThrowingGetter(7), FunctionThenable(1) }
    \cup { Thenable(i) : i \in DOMAIN ThenScripts }

NextAssimilation ==
    \/ NewPromise(<<>>)
    \/ \E p \in DOMAIN promises : Then(p, Handler("identity"), Handler("identity"))
    \/ \E x \in AssimilationValues : StaticResolve(x)
    \/ \E k \in DOMAIN pairs, v \in AssimilationValues : CallResolve(k, v)
    \/ \E k \in DOMAIN pairs : CallReject(k, Num(2))
    \/ RunJob

SpecAssimilation == Init /\ [][NextAssimilation]_vars

\* The program
\*   Promise.resolve(v).then(v => v + 1).then(v => { throw v; }).then(null, e => e * 10)
\* its four calls made in this order, each on the promise the call before it
\* returned, with the event loop free to run jobs between them.
MaxStart == 5

ChainStarts == { Num(n) : n \in 0..MaxStart }

ChainHandlers ==
    << <<Handler("increment"), Undefined>>,
       <<Handler("thrower"), Undefined>>,
       <<Null, Handler("times10")>> >>

ChainLength == Len(ChainHandlers) + 1

\* Promise.resolve(v), the first call of the chain
ChainStart(v) ==
    /\ ops = 0
    /\ Called(IF impl = "part_000" THEN Promise_resolve(Cur("Promise.resolve"), v)
              ELSE PromiseJs_resolve(Cur("Promise.resolve"), v),
              "Promise.resolve", Len(promises) + 1, Len(pairs) + 1, v, <<>>, TRUE,
              {Len(promises) + 1})

\* .then(onFulfilled, onRejected) on the promise the call before returned:
\* every call of the chain makes one promise, so that promise is promise `ops`
ChainThen ==
    /\ ops \in 1..(ChainLength - 1)
    /\ Called(IF impl = "part_000"
              THEN prototype_then(Cur("then"), PromiseRef(ops),
                                  ChainHandlers[ops][1], ChainHandlers[ops][2])
              ELSE PromiseJs_then(Cur("then"), PromiseRef(ops),
                                  ChainHandlers[ops][1], ChainHandlers[ops][2]),
              "then", Len(promises) + 1, 0, PromiseRef(ops), <<>>, TRUE,
              {Len(promises) + 1})

NextChain ==
    \/ \E v \in ChainStarts : ChainStart(v)
    \/ ChainThen
    \/ RunJob

\* the script runs to its end and setImmediate runs every callback it is given
SpecChain ==
    Init /\ [][NextChain]_vars /\ WF_vars(\E v \in ChainStarts : ChainStart(v))
         /\ WF_vars(ChainThen) /\ WF_vars(RunJob)

\* The program
\*   p1 = new Promise(r => { resolve1 = r }); p2 = new Promise(r => { resolve2 = r });
\*   resolve1(p2); resolve2(p1);
\* the two resolve calls in either order, with the event loop free to run jobs
\* at any time and with up to MaxObservers calls pN.then(v => v, e => e).
MaxObservers == 2

\* the then() calls made so far by user code (the others are made by jobs)
UserThens == {t \in DOMAIN thens : thens[t].onFulfilled.k \in HandlerNames}

\* pN = new Promise(r => { resolveN = r }): promise N with pair N
CycleNew ==
    /\ Len(promises) < 2
    /\ Called(IF impl = "part_000" THEN Promise(Cur("new"), <<>>, TRUE)
              ELSE PromiseJs(Cur("new"), <<>>, TRUE),
              "new", Len(promises) + 1, Len(pairs) + 1, Undefined, <<>>, TRUE,
              {Len(promises) + 1})

\* resolveK(the other promise), once
CycleResolve(k) ==
    /\ Len(promises) >= 2
    /\ ~pairs[k].called
    /\ Called(CallResolveFn(Cur("resolve"), k, PromiseRef(3 - k)),
              "resolve", pairs[k].promise, k, PromiseRef(3 - k), <<>>, TRUE, {})

\* pN.then(v => v, e => e)
CycleObserve(p) ==
    /\ Len(promises) >= 2
    /\ Cardinality(UserThens) < MaxObservers
    /\ Called(IF impl = "part_000"
              THEN prototype_then(Cur("then"), PromiseRef(p),
                                  Handler("identity"), Handler("identity"))
              ELSE PromiseJs_then(Cur("then"), PromiseRef(p),
                                  Handler("identity"), Handler("identity")),
              "then", Len(promises) + 1, 0, PromiseRef(p), <<>>, TRUE,
              {Len(promises) + 1})

NextCycle ==
    \/ CycleNew
    \/ \E k \in 1..2 : CycleResolve(k)
    \/ \E p \in 1..2 : CycleObserve(p)
    \/ RunHead

\* the script makes its four calls and setImmediate runs every callback it is
\* given
SpecCycle ==
    Init /\ [][NextCycle]_vars /\ WF_vars(CycleNew)
         /\ WF_vars(\E k \in 1..2 : CycleResolve(k)) /\ WF_vars(RunHead)

(***************************************************************************)
(* Claims                                                                  *)
(***************************************************************************)
StateAndResult(P) == <<P.state, P.result>>

\* a value resolve() does not treat as a thenable and whose then can be read
NonThenable(v) ==
    v.k \in {"number", "NaN", "string", "undefined", "null", "object", "TypeError"}

UserHandler(h) == h.k \in HandlerNames

\* C1: once either function of a resolve/reject pair has been called, a later
\* call by user code of either function of that pair, with any value, leaves
\* the promise's state and result as they were.
C1_LaterCallsOfAPairHaveNoEffect ==
    [][ (last'.op \in {"resolve", "reject"} /\ ~last'.fresh)
        => StateAndResult(promises'[last'.promise])
             = StateAndResult(promises[last'.promise]) ]_vars

\* C2: a promise that is fulfilled or rejected keeps its state and its result
\* in every later step.
C2_SettledStateNeverChanges ==
    [][ \A p \in DOMAIN promises :
          promises[p].state # "pending"
          => StateAndResult(promises'[p]) = StateAndResult(promises[p]) ]_vars

\* C4: every then() handler that ever ran, ran in a job taken from the queue:
\* never inside then(), a constructor, Promise.resolve/reject or a call of a
\* resolve or reject function.
C4_HandlersRunOnlyInJobs ==
    \A i \in DOMAIN log :
        log[i].type \in {"Fulfill", "Reject"} => log[i].ctx = "job"

\* a handler registered on a promise that was already settled has run
C4_Witness ==
    \E i \in DOMAIN log, t \in DOMAIN thens :
        /\ log[i].type \in {"Fulfill", "Reject"}
        /\ thens[t].result = log[i].promise
        /\ thens[t].state # "pending"

\* the first position in the log where the handler of kind `type` of the
\* registration that returned promise q ran; 0 when it has not run
FirstRun(q, type) ==
    LET I == {i \in DOMAIN log : log[i].promise = q /\ log[i].type = type}
    IN IF I = {} THEN 0 ELSE CHOOSE i \in I : \A j \in I : i <= j

HandlerOf(t, type) == IF type = "Fulfill" THEN thens[t].onFulfilled ELSE thens[t].onRejected

\* C5: for two then() calls made in this order on the same pending promise,
\* both with a handler for the outcome, the later registration's handler has
\* run only if the earlier registration's handler ran before it.
C5_HandlersRunInRegistrationOrder ==
    \A a, b \in DOMAIN thens : \A type \in {"Fulfill", "Reject"} :
        ( /\ a < b
          /\ thens[a].source = thens[b].source
          /\ thens[a].state = "pending" /\ thens[b].state = "pending"
          /\ UserHandler(HandlerOf(a, type)) /\ UserHandler(HandlerOf(b, type))
          /\ FirstRun(thens[b].result, type) # 0 )
        => /\ FirstRun(thens[a].result, type) # 0
           /\ FirstRun(thens[a].result, type) < FirstRun(thens[b].result, type)

\* both handlers of two registrations made on one pending promise have run
C5_Witness ==
    \E a, b \in DOMAIN thens : \E type \in {"Fulfill", "Reject"} :
        /\ a < b
        /\ thens[a].source = thens[b].source
        /\ thens[a].state = "pending" /\ thens[b].state = "pending"
        /\ FirstRun(thens[a].result, type) # 0
        /\ FirstRun(thens[b].result, type) # 0

\* C6: right after a reaction job ran a user handler, the promise returned by
\* that then() is rejected with what the handler threw, or fulfilled with the
\* non-thenable value the handler returned.
C6_HandlerOutcomeSettlesDownstream ==
    (last.op = "job" /\ last.job.kind = "reaction" /\ UserHandler(last.job.reaction.handler))
    => LET e == log[Len(log)]
           q == promises[pairs[last.job.reaction.capability].promise]
       IN /\ e.threw => StateAndResult(q) = <<"rejected", e.value>>
          /\ (~e.threw /\ NonThenable(e.value)) => StateAndResult(q) = <<"fulfilled", e.value>>

\* C10: right after new Promise(executor) with an executor that throws e: the
\* constructor did not raise; the promise is rejected with e when the executor
\* called neither function before, else it has the outcome of its first call.
C10_ThrowingExecutor ==
    (last.op = "new" /\ last.script # <<>> /\ last.script[Len(last.script)].op = "throw")
    => LET first == last.script[1]
           P == promises[last.promise]
       IN /\ ~last.raised
          /\ first.op = "throw" => StateAndResult(P) = <<"rejected", first.v>>
          /\ (first.op = "res" /\ NonThenable(first.v))
               => StateAndResult(P) = <<"fulfilled", first.v>>
          /\ first.op = "rej" => StateAndResult(P) = <<"rejected", first.v>>

\* C3: right after Promise.resolve(v) with v not a thenable, the call did not
\* raise and the promise it made is fulfilled with v.
C3_StaticResolveOfNonThenable ==
    (last.op = "Promise.resolve" /\ NonThenable(last.arg))
    => /\ ~last.raised
       /\ StateAndResult(promises[last.promise]) = <<"fulfilled", last.arg>>

\* a thenable job that would resolve promise p with p itself is queued
SelfAssimilationQueued(p) ==
    \E i \in DOMAIN queue :
        /\ queue[i].kind = "thenable"
        /\ queue[i].promise = p
        /\ queue[i].argument = PromiseRef(p)

SelfRejected(p) ==
    /\ StateAndResult(promises[p]) = <<"rejected", SelfResolutionError>>
    /\ ~SelfAssimilationQueued(p)

\* C7: right after the first call of a pair is resolve(p) with p the pair's own
\* promise (made by user code, or by a reaction job whose handler returned the
\* promise its then() produced), p is rejected with the self-resolution
\* TypeError and no thenable job for p is queued.
C7_SelfResolutionRejects ==
    /\ (last.op = "resolve" /\ last.fresh /\ last.arg = PromiseRef(last.promise))
       => SelfRejected(last.promise)
    /\ (last.op = "job" /\ last.fresh /\ last.job.reaction.handler = Handler("returnsOwnPromise"))
       => SelfRejected(pairs[last.job.reaction.capability].promise)

\* a reaction job ran a handler that returned the promise its then() produced
C7_Witness ==
    /\ last.op = "job" /\ last.fresh
    /\ last.job.reaction.handler = Handler("returnsOwnPromise")
    /\ log # <<>>
    /\ log[Len(log)].value = PromiseRef(pairs[last.job.reaction.capability].promise)

\* C8: for g = Promise.resolve(f), f a promise: g is pending while f is
\* pending, and once f is settled and the queue is empty g has f's state and
\* result.
C8_StaticResolveAdoptsPromise ==
    \A a \in adoptions :
        LET g == promises[a[1]]
            f == promises[a[2]]
        IN /\ f.state = "pending" => g.state = "pending"
           /\ (f.state # "pending" /\ queue = <<>>) => StateAndResult(g) = StateAndResult(f)

\* the step is a first call resolve(t) of a pair, by user code or by
\* Promise.resolve, with t an object whose then is callable, on a promise that
\* was pending (or is made by the call)
FirstResolveWithThenable ==
    /\ last'.op \in {"resolve", "Promise.resolve"}
    /\ last'.fresh
    /\ last'.arg.k = "thenable"
    /\ (last'.promise \in DOMAIN promises => promises[last'.promise].state = "pending")

\* the last step was the job of a thenable whose then function calls its
\* first argument with a non-thenable value and does nothing else
ThenCalledResolve ==
    /\ last.op = "job"
    /\ last.job.kind = "thenable"
    /\ last.job.then.k = "thenFn"
    /\ Len(ThenScripts[last.job.then.n]) = 1
    /\ ThenScripts[last.job.then.n][1].op = "res"
    /\ NonThenable(ThenScripts[last.job.then.n][1].v)

\* a then function ran in a job and called its first argument
C9_Witness ==
    /\ ThenCalledResolve
    /\ log # <<>> /\ log[Len(log)].type = "then" /\ log[Len(log)].ctx = "job"
    /\ promises[last.job.promise].state = "fulfilled"

ThenFunctionsRanInJobs == \A i \in DOMAIN log : (log[i].type = "then" => log[i].ctx = "job")

\* C9: a first call resolve(t) on a pending promise, t an object with a callable
\* then, leaves the promise pending and runs no user function; t.then only ever
\* runs in a job; and right after the job in which the then function called
\* its first argument with a non-thenable v, the promise is fulfilled with v.
C9_ThenableIsAssimilatedInAJob ==
    [][ /\ (FirstResolveWithThenable
              => (promises'[last'.promise].state = "pending" /\ log' = log))
        /\ ThenFunctionsRanInJobs'
        /\ (ThenCalledResolve'
              => (StateAndResult(promises'[last'.job.promise])
                    = <<"fulfilled", ThenScripts[last'.job.then.n][1].v>>)) ]_vars

\* the chain's four promises, for a chain started with Promise.resolve(v)
ChainSettledFrom(v) ==
    /\ Len(promises) = ChainLength
    /\ StateAndResult(promises[1]) = <<"fulfilled", v>>
    /\ StateAndResult(promises[2]) = <<"fulfilled", Plus1(v)>>
    /\ StateAndResult(promises[3]) = <<"rejected", Plus1(v)>>
    /\ StateAndResult(promises[4]) = <<"fulfilled", Times10(Plus1(v))>>
    /\ queue = <<>>

ChainSettled == \E v \in ChainStarts : ChainSettledFrom(v)

\* C11: with a FIFO queue that is drained, the chain
\* Promise.resolve(v).then(v => v + 1).then(v => { throw v; }).then(null, e => e * 10)
\* ends, and stays, with its second promise fulfilled with v + 1, its third
\* rejected with v + 1 and its last fulfilled with (v + 1) * 10: for v = 1 with
\* 2, 2 and 20.
C11_ChainEndsFulfilled == <>[]ChainSettled

\* the chain started with Promise.resolve(1) has ended with its last promise
\* fulfilled with 20
C11_Witness ==
    /\ ChainSettledFrom(Num(1))
    /\ StateAndResult(promises[ChainLength]) = <<"fulfilled", Num(20)>>
    /\ Len(log) = 3

\* the reaction jobs in the queue that belong to the then() call that returned q
QueuedFor(q) ==
    {i \in DOMAIN queue :
        queue[i].kind = "reaction" /\ pairs[queue[i].reaction.capability].promise = q}

\* the invocations so far of the two handlers of the then() call that returned q
InvocationsFor(q) ==
    {i \in DOMAIN log : log[i].promise = q /\ log[i].type \in {"Fulfill", "Reject"}}

\* C12: for every then() call made so far, the reaction jobs of that call still
\* queued and the invocations of its two handlers made so far are together at
\* most one: one reaction of the two is dispatched, once, so the two handlers
\* are never both invoked and neither is invoked twice.
C12_OneReactionPerThen ==
    \A t \in DOMAIN thens :
        Cardinality(QueuedFor(thens[t].result)) + Cardinality(InvocationsFor(thens[t].result)) <= 1

\* no reaction job of the then() call that returned q is waiting in the queue
Dispatched(q) == QueuedFor(q) = {}

\* C13: for every then() call whose reaction jobs have all run: if the source
\* is fulfilled with a non-thenable v and the call gave no callable
\* onFulfilled, the promise it returned is fulfilled with v; if the source is
\* rejected with r and the call gave no callable onRejected, the promise it
\* returned is rejected with r.
C13_PassThrough ==
    \A t \in DOMAIN thens :
        LET source == promises[thens[t].source]
            downstream == promises[thens[t].result]
        IN /\ ( /\ Dispatched(thens[t].result)
                /\ source.state = "fulfilled" /\ NonThenable(source.result)
                /\ thens[t].onFulfilled = Undefined )
              => StateAndResult(downstream) = <<"fulfilled", source.result>>
           /\ ( /\ Dispatched(thens[t].result)
                /\ source.state = "rejected"
                /\ thens[t].onRejected = Undefined )
              => StateAndResult(downstream) = <<"rejected", source.result>>

\* C14: right after a first call resolve(o) of a pair, made by user code or by
\* Promise.resolve, with o an object whose then getter throws e: the call did
\* not raise and the promise is rejected with e.
C14_ThrowingThenGetterRejects ==
    (last.op \in {"resolve", "Promise.resolve"} /\ last.fresh /\ last.arg.k = "getter")
    => /\ ~last.raised
       /\ StateAndResult(promises[last.promise]) = <<"rejected", Num(last.arg.n)>>

\* the last step was the job of a thenable whose then function ended by
\* throwing
ThenThrew ==
    /\ last.op = "job"
    /\ last.job.kind = "thenable"
    /\ last.job.then.k = "thenFn"
    /\ ThenScripts[last.job.then.n] # <<>>
    /\ ThenScripts[last.job.then.n][Len(ThenScripts[last.job.then.n])].op = "throw"

\* C15: right after the job of a thenable whose then function threw e, the
\* promise is rejected with e when the then function had called neither
\* callback before; when it had first called resolve with a non-thenable v the
\* promise is fulfilled with v, and when it had first called reject with r the
\* promise is rejected with r.
C15_ThrowAfterCallbackIsIgnored ==
    ThenThrew
    => LET first == ThenScripts[last.job.then.n][1]
           P == promises[last.job.promise]
       IN /\ first.op = "throw" => StateAndResult(P) = <<"rejected", first.v>>
          /\ (first.op = "res" /\ NonThenable(first.v))
               => StateAndResult(P) = <<"fulfilled", first.v>>
          /\ first.op = "rej" => StateAndResult(P) = <<"rejected", first.v>>

\* a reaction-list slot that is undefined or holds an empty array
Cleared(slot) == slot.undef \/ slot.list = <<>>

\* C16: a promise that is not pending has both its reaction lists cleared.
C16_SettledHoldsNoReactions ==
    \A p \in DOMAIN promises :
        promises[p].state # "pending"
        => Cleared(promises[p].fulfillReactions) /\ Cleared(promises[p].rejectReactions)

\* pair k was called, its promise is pending, and a thenable job for that
\* promise is queued or has run (a later pair of the promise exists): the
\* pair's resolve was called with a thenable
AwaitingAssimilation(k) ==
    /\ k \in DOMAIN pairs
    /\ pairs[k].called
    /\ promises[pairs[k].promise].state = "pending"
    /\ \/ \E i \in DOMAIN queue :
              queue[i].kind = "thenable" /\ queue[i].promise = pairs[k].promise
       \/ \E j \in DOMAIN pairs : j > k /\ pairs[j].promise = pairs[k].promise

\* the pairs of promise p made by thenable jobs: all but its first
JobPairs(p) ==
    {j \in DOMAIN pairs :
        pairs[j].promise = p /\ \E k \in DOMAIN pairs : k < j /\ pairs[k].promise = p}

\* the then functions run so far for promise p
ThenRuns(p) == {i \in DOMAIN log : log[i].type = "then" /\ log[i].promise = p}

\* every then function run for p has the empty body, and the callbacks it was
\* given were never called
NeverCalledBack(p) ==
    /\ ThenRuns(p) # {}
    /\ \A i \in ThenRuns(p) : ThenScripts[log[i].argument.n] = <<>>
    /\ \A j \in JobPairs(p) : ~pairs[j].called

\* C17: a call by user code of resolve or reject of a pair whose resolve was
\* called with a thenable, while the promise is pending, changes neither the
\* promise nor the queue; and a promise whose then functions called neither
\* callback and did not throw is pending.
C17_CallsWhileAssimilatingHaveNoEffect ==
    [][ /\ (last'.op \in {"resolve", "reject"} /\ AwaitingAssimilation(last'.pair))
            => /\ StateAndResult(promises'[last'.promise])
                    = StateAndResult(promises[last'.promise])
               /\ queue' = queue
        /\ \A p \in DOMAIN promises' :
               NeverCalledBack(p)' => promises'[p].state = "pending" ]_vars

\* an object or a function whose then property is callable
IsThenable(v) ==
    /\ isObject(v) \/ isFunction(v)
    /\ v # Null
    /\ ~GetThen(v).threw
    /\ isCallable(GetThen(v).value)

\* C18: no promise is fulfilled with an object or a function whose then is
\* callable.
C18_NeverFulfilledWithAThenable ==
    \A p \in DOMAIN promises :
        promises[p].state = "fulfilled" => ~IsThenable(promises[p].result)

\* both handlers of registration t are functions of the user
BothUserHandlers(t) == UserHandler(thens[t].onFulfilled) /\ UserHandler(thens[t].onRejected)

\* C19: for a then() call made on a pending promise and a later then() call
\* made on the same promise after it settled, a handler of the later call has
\* run only if a handler of the earlier call has, every run of the earlier
\* call's handlers comes before every run of the later call's, and they were
\* all given the same argument.
C19_OrderAcrossSettlement ==
    \A a, b \in DOMAIN thens :
        ( /\ a < b
          /\ thens[a].source = thens[b].source
          /\ thens[a].state = "pending" /\ thens[b].state # "pending"
          /\ BothUserHandlers(a) /\ BothUserHandlers(b)
          /\ InvocationsFor(thens[b].result) # {} )
        => /\ InvocationsFor(thens[a].result) # {}
           /\ \A i \in InvocationsFor(thens[a].result), j \in InvocationsFor(thens[b].result) :
                  i < j /\ log[i].argument = log[j].argument

\* both resolve calls of the cycle have been made
CycleClosed == Len(pairs) >= 2 /\ pairs[1].called /\ pairs[2].called

\* the thenable jobs that have run: each made one then() call of its own
ThenableJobsRun == {t \in DOMAIN thens : thens[t].onFulfilled.k = "resolveFn"}

\* no promise is settled (so no reaction job was ever scheduled), no call
\* raised, no handler ran, and the jobs scheduled so far are at most two
CycleUndetected ==
    /\ \A p \in DOMAIN promises : promises[p].state = "pending"
    /\ ~last.raised
    /\ log = <<>>
    /\ Len(queue) + Cardinality(ThenableJobsRun) <= 2

\* C20: when two pending promises are each resolved with the other, no call
\* raises and nothing is ever rejected or fulfilled; two jobs are scheduled in
\* all; and from some point on the queue is empty for ever, both promises
\* still pending.
C20_MutualResolutionStaysPending ==
    /\ []CycleUndetected
    /\ <>[](CycleClosed /\ queue = <<>>)

\* both jobs of the cycle have run: each promise holds the reaction by which
\* the other waits for it, the queue is empty and both are pending
C20_Witness ==
    /\ CycleClosed
    /\ queue = <<>>
    /\ Cardinality(ThenableJobsRun) = 2
    /\ promises[1].state = "pending" /\ promises[2].state = "pending"
    /\ promises[1].fulfillReactions.list # <<>>
    /\ promises[2].fulfillReactions.list # <<>>

====
